---- MODULE Spec2Model ----
(***************************************************************************)
(* Model of frida_scripts/monitor_file_ops.js: the bootstrap that installs *)
(* the managed (Java) and native (libc) hooks, and the hook bodies that    *)
(* run on every intercepted call.                                          *)
(*                                                                         *)
(* The script body runs once inside Java.perform (bootstrap).  Afterwards  *)
(* every call of a hooked target runs the hook body to completion under    *)
(* the script runtime's lock, so one intercepted call is one step.         *)
(***************************************************************************)
EXTENDS Integers, Sequences, FiniteSets, TLC

VARIABLES
    pc,          \* position of the bootstrap in the script body
    available,   \* classes, methods and exports present in the host process
    hooked,      \* targets whose hook is installed
    out,         \* the output sink: lines written by console.log, in order
    seenEvents,  \* the global binding `seenEvents` read by the native hooks
    calls        \* the intercepted calls so far, in order

vars == <<pc, available, hooked, out, seenEvents, calls>>

(***************************************************************************)
(* Bounds of the model.                                                    *)
(***************************************************************************)
MaxCalls == 2      \* intercepted calls per behaviour
MaxStack == 2      \* frames in a captured backtrace
MaxMissing == 1    \* symbols absent from the host process

(***************************************************************************)
(* Input domains.                                                          *)
(***************************************************************************)
Sockfds == {5, 6}
Sizes == {10, 20}
Domains == {2, 3}
SockTypes == {1}
Paths == {"/data/a.txt"}

\* What the original implementation does when it is invoked.
OrigResults == {"returns", "throws"}

\* A frame of the symbolicated backtrace: null, or an object with a
\* description (its toString()).
NullFrame == [isNull |-> TRUE, text |-> ""]
LibFrame == [isNull |-> FALSE, text |-> "libart.so!invoke"]
AppFrame1 == [isNull |-> FALSE, text |-> "com.example.A.f"]
AppFrame2 == [isNull |-> FALSE, text |-> "x!com.example.B"]
Frames == {NullFrame, LibFrame, AppFrame1, AppFrame2}

Stacks == UNION {[1..n -> Frames] : n \in 0..MaxStack}

\* The call stacks under which the hooks that never read the stack are
\* exercised.
CallerStacks == {s \in Stacks : Len(s) <= 1}

(***************************************************************************)
(* Symbols the script resolves during bootstrap, in the order it resolves  *)
(* them.                                                                   *)
(***************************************************************************)
Symbols ==
    { "java.io.File", "java.io.FileOutputStream", "java.io.FileInputStream",
      "android.content.Context", "Context.openFileOutput",
      "android.app.Activity",
      "MainActivity", "MainActivity.setupFileOperationButton",
      "MainActivity$1", "MainActivity$1.onClick",
      "socket", "connect", "send", "recv" }

ManagedTargets ==
    { "java.io.File.<init>", "java.io.FileOutputStream.<init>",
      "java.io.FileInputStream.<init>",
      "android.content.Context.openFileOutput" }

LifecycleTargets ==
    { "android.app.Activity.onCreate",
      "MainActivity.setupFileOperationButton", "MainActivity$1.onClick" }

NativeTargets == {"libc.socket", "libc.connect", "libc.send", "libc.recv"}

\* The export order of the native try block.
nativeExports == <<"socket", "connect", "send", "recv">>

(***************************************************************************)
(* monitoredApis and shouldLogApi.                                         *)
(***************************************************************************)
monitoredApis ==
    << "java.io.File.<init>",
       "java.io.FileInputStream.<init>",
       "java.io.FileOutputStream.<init>",
       "android.content.Context.openFileOutput",
       "android.content.Context.openFileInput",
       "android.content.res.AssetManager.open" >>

shouldLogApi(apiName) == \E i \in 1..Len(monitoredApis) : monitoredApis[i] = apiName

(***************************************************************************)
(* Output lines.                                                           *)
(***************************************************************************)
Diag(text) == [kind |-> "diag", text |-> text]

\* '{"type":"api","name":"' + name + '","method":"' + method + '","args":{...}}'
Event(name, method, args) ==
    [kind |-> "event", type |-> "api", name |-> name, method |-> method,
     args |-> args]

IsEvent(l) == l.kind = "event"

(***************************************************************************)
(* String helpers: s.indexOf(sub) >= 0.                                    *)
(***************************************************************************)
Contains(s, sub) ==
    \E i \in 1..(Len(s) - Len(sub) + 1) : SubSeq(s, i, i + Len(sub) - 1) = sub

(***************************************************************************)
(* Call-site resolution of the java.io.File.<init> hook: the loop over the *)
(* frames, then the fallback to the first frame.  stack[i] is truthy when  *)
(* it is not null; toString() of a null frame raises a TypeError.          *)
(***************************************************************************)
IsAppFrame(f) == ~f.isNull /\ Contains(f.text, "com.example")

\* The index at which the loop breaks, or 0 when it runs to the end.
FirstAppIndex(stack) ==
    IF \E i \in 1..Len(stack) : IsAppFrame(stack[i])
    THEN CHOOSE i \in 1..Len(stack) :
            /\ IsAppFrame(stack[i])
            /\ \A j \in 1..(i - 1) : ~IsAppFrame(stack[j])
    ELSE 0

\* [raised, callSite]: callSite after the loop and the fallback.
ResolveCallSite(stack) ==
    LET i == FirstAppIndex(stack)
        afterLoop == IF i > 0 THEN stack[i].text ELSE ""
    IN  IF afterLoop = "" /\ Len(stack) > 0
        THEN IF stack[1].isNull
             THEN [raised |-> TRUE, callSite |-> afterLoop]
             ELSE [raised |-> FALSE, callSite |-> stack[1].text]
        ELSE [raised |-> FALSE, callSite |-> afterLoop]

(***************************************************************************)
(* Bodies of the managed hooks up to, and not including, the forward to    *)
(* the original: [raised, lines].                                          *)
(***************************************************************************)
FileInitBody(path, stack) ==
    LET apiName == "java.io.File.<init>"
        r == ResolveCallSite(stack)
    IN  IF shouldLogApi(apiName)
        THEN IF r.raised
             THEN [raised |-> TRUE, lines |-> <<>>]
             ELSE [raised |-> FALSE,
                   lines |-> << Diag("[File] Creating file: " \o path),
                                Event(apiName, r.callSite, <<"path", path>>) >>]
        ELSE [raised |-> FALSE, lines |-> <<>>]

FileOutputStreamInitBody(path) ==
    [raised |-> FALSE,
     lines |-> << Diag("[FileOutputStream] Opening file output stream: " \o path),
                  Event("java.io.FileOutputStream.<init>", "unknown",
                        <<"path", path>>) >>]

FileInputStreamInitBody(path) ==
    [raised |-> FALSE,
     lines |-> << Diag("[FileInputStream] Opening file input stream: " \o path),
                  Event("java.io.FileInputStream.<init>", "unknown",
                        <<"path", path>>) >>]

OpenFileOutputBody(fileName) ==
    [raised |-> FALSE,
     lines |-> << Diag("[Context] Opening file output: " \o fileName),
                  Event("android.content.Context.openFileOutput", "unknown",
                        <<"fileName", fileName>>) >>]

LifecycleBody(target) ==
    [raised |-> FALSE,
     lines |-> << Diag(CASE target = "android.app.Activity.onCreate" ->
                              "[Activity] onCreate called"
                         [] target = "MainActivity.setupFileOperationButton" ->
                              "[MainActivity] Setting up file operation button"
                         [] OTHER -> "[MainActivity$1] Click event triggered") >>]

(***************************************************************************)
(* A replacement implementation runs in place of the original: the         *)
(* original runs only when the body reaches its forwarding statement, and  *)
(* then its outcome is what the caller gets.  When the body raises first,  *)
(* the original is not invoked and the caller gets the hook's failure.     *)
(***************************************************************************)
ManagedForward(body, orig) ==
    IF body.raised
    THEN [forwarded |-> 0, delivered |-> "hook_error"]
    ELSE [forwarded |-> 1, delivered |-> orig]

(***************************************************************************)
(* Native hooks are onEnter callbacks: the interceptor runs the original   *)
(* after the callback whether or not the callback raised.                  *)
(***************************************************************************)
NativeForward(body, orig) == [forwarded |-> 1, delivered |-> orig]

\* switch(this.domain) and switch(this.type) of the socket hook.
domainName(domain) ==
    CASE domain = 0 -> "AF_UNSPEC"
      [] domain = 1 -> "AF_UNIX"
      [] domain = 2 -> "AF_INET"
      [] domain = 10 -> "AF_INET6"
      [] OTHER -> ToString(domain)

typeName(type) ==
    CASE type = 1 -> "SOCK_STREAM"
      [] type = 2 -> "SOCK_DGRAM"
      [] type = 3 -> "SOCK_RAW"
      [] OTHER -> ToString(type)

(***************************************************************************)
(* if (!seenEvents[eventId]) { seenEvents[eventId] = true; ...log... }     *)
(* Evaluating the identifier seenEvents raises a ReferenceError when no    *)
(* binding of that name exists; the statements after it do not run.        *)
(***************************************************************************)
\* Variant: the membership test is dropped, every call writes its lines.
checkAndRecord_noCheck(seen, eventId, lines) ==
    [raised |-> FALSE, lines |-> lines, seen |-> seen]

\* Variant: the set is created afresh on every call before the key is stored.
checkAndRecord_reset(seen, eventId, lines) ==
    [raised |-> FALSE, lines |-> lines,
     seen |-> [declared |-> TRUE, keys |-> {eventId}]]

checkAndRecord(seen, eventId, lines) ==
    IF ~seen.declared
    THEN [raised |-> TRUE, lines |-> <<>>, seen |-> seen]
    ELSE IF eventId \notin seen.keys
         THEN [raised |-> FALSE, lines |-> lines,
               seen |-> [seen EXCEPT !.keys = @ \cup {eventId}]]
         ELSE [raised |-> FALSE, lines |-> <<>>, seen |-> seen]

connectEventId(sockfd) == "connect_" \o ToString(sockfd)
sendEventId(sockfd, dataSize) ==
    "send_" \o ToString(sockfd) \o "_" \o ToString(dataSize)
recvEventId(sockfd, bufferSize) ==
    "recv_" \o ToString(sockfd) \o "_" \o ToString(bufferSize)

\* Variant: the socket hook is deduplicated like the other native hooks.
SocketOnEnter_dedup(seen, domain, type) ==
    checkAndRecord(seen, "socket_" \o ToString(domain) \o "_" \o ToString(type),
        << Diag("[Native] Creating socket: domain=" \o domainName(domain)
                  \o ", type=" \o typeName(type)),
           Event("libc.socket", "native",
                 <<"domain", domainName(domain), "type", typeName(type)>>) >>)

\* [raised, lines, seen]
SocketOnEnter(seen, domain, type) ==
    [raised |-> FALSE,
     lines |-> << Diag("[Native] Creating socket: domain=" \o domainName(domain)
                        \o ", type=" \o typeName(type)),
                  Event("libc.socket", "native",
                        <<"domain", domainName(domain), "type", typeName(type)>>) >>,
     seen |-> seen]

\* Variant: the human-readable line is written before the guard, only the
\* structured line is inside it.
ConnectOnEnter_diagOutside(seen, sockfd) ==
    LET r == checkAndRecord(seen, connectEventId(sockfd),
                 << Event("libc.connect", "native", <<"sockfd", ToString(sockfd)>>) >>)
    IN  [raised |-> r.raised,
         lines |-> << Diag("[Native] Connect called with sockfd: "
                            \o ToString(sockfd)) >> \o r.lines,
         seen |-> r.seen]

ConnectOnEnter(seen, sockfd) ==
    checkAndRecord(seen, connectEventId(sockfd),
        << Diag("[Native] Connect called with sockfd: " \o ToString(sockfd)),
           Event("libc.connect", "native", <<"sockfd", ToString(sockfd)>>) >>)

SendOnEnter(seen, sockfd, dataSize) ==
    checkAndRecord(seen, sendEventId(sockfd, dataSize),
        << Diag("[Native] Sending " \o ToString(dataSize)
                  \o " bytes on socket " \o ToString(sockfd)),
           Event("libc.send", "native",
                 <<"sockfd", ToString(sockfd), "size", ToString(dataSize)>>) >>)

RecvOnEnter(seen, sockfd, bufferSize) ==
    checkAndRecord(seen, recvEventId(sockfd, bufferSize),
        << Diag("[Native] Receiving up to " \o ToString(bufferSize)
                  \o " bytes on socket " \o ToString(sockfd)),
           Event("libc.recv", "native",
                 <<"sockfd", ToString(sockfd), "size", ToString(bufferSize)>>) >>)

(***************************************************************************)
(* Initial state: the script has been loaded and its first statement has   *)
(* run.  No statement of the script declares or assigns seenEvents, so the *)
(* binding does not exist.                                                 *)
(***************************************************************************)
Init ==
    /\ pc = "File"
    /\ available \in {Symbols \ m : m \in {x \in SUBSET Symbols : Cardinality(x) <= MaxMissing}}
    /\ hooked = {}
    /\ out = << Diag("[+] Frida script loaded") >>
    /\ seenEvents = [declared |-> FALSE, keys |-> {}]
    /\ calls = <<>>

(***************************************************************************)
(* Bootstrap.  Java.use of an absent class and .overload/.implementation   *)
(* on an absent method raise; outside a try block that ends the script     *)
(* body.                                                                   *)
(***************************************************************************)
\* One unguarded registration: Java.use(cls), then the assignment of the
\* implementation of `target`.
RegisterUnguarded(cls, target, next) ==
    /\ IF cls \in available
       THEN /\ hooked' = hooked \cup {target}
            /\ pc' = next
       ELSE /\ hooked' = hooked
            /\ pc' = "aborted"
    /\ UNCHANGED <<available, out, seenEvents, calls>>

RegisterFile ==
    /\ pc = "File"
    /\ RegisterUnguarded("java.io.File", "java.io.File.<init>", "FileOutputStream")

RegisterFileOutputStream ==
    /\ pc = "FileOutputStream"
    /\ RegisterUnguarded("java.io.FileOutputStream",
                         "java.io.FileOutputStream.<init>", "FileInputStream")

RegisterFileInputStream ==
    /\ pc = "FileInputStream"
    /\ RegisterUnguarded("java.io.FileInputStream",
                         "java.io.FileInputStream.<init>", "Context")

\* Java.use("android.content.Context"); if (Context.openFileOutput) {...}
RegisterContext ==
    /\ pc = "Context"
    /\ IF "android.content.Context" \notin available
       THEN /\ hooked' = hooked
            /\ pc' = "aborted"
       ELSE /\ hooked' = IF "Context.openFileOutput" \in available
                         THEN hooked \cup {"android.content.Context.openFileOutput"}
                         ELSE hooked
            /\ pc' = "Activity"
    /\ UNCHANGED <<available, out, seenEvents, calls>>

RegisterActivity ==
    /\ pc = "Activity"
    /\ RegisterUnguarded("android.app.Activity", "android.app.Activity.onCreate",
                         "MainActivity")

\* try { Java.use(cls); cls.method.implementation = ... } catch(e) { log }
\* Variant: the registration is not wrapped in try/catch.
RegisterGuarded_noCatch(cls, method, target, message, next) ==
    /\ IF cls \in available /\ method \in available
       THEN /\ hooked' = hooked \cup {target}
            /\ pc' = next
       ELSE /\ hooked' = hooked
            /\ pc' = "aborted"
    /\ UNCHANGED <<available, out, seenEvents, calls>>

RegisterGuarded(cls, method, target, message, next) ==
    /\ IF cls \in available /\ method \in available
       THEN /\ hooked' = hooked \cup {target}
            /\ out' = out
       ELSE /\ hooked' = hooked
            /\ out' = Append(out, Diag(message))
    /\ pc' = next
    /\ UNCHANGED <<available, seenEvents, calls>>

RegisterMainActivity ==
    /\ pc = "MainActivity"
    /\ RegisterGuarded("MainActivity", "MainActivity.setupFileOperationButton",
                       "MainActivity.setupFileOperationButton",
                       "Could not monitor setupFileOperationButton: ",
                       "MainActivity1")

RegisterMainActivity1 ==
    /\ pc = "MainActivity1"
    /\ RegisterGuarded("MainActivity$1", "MainActivity$1.onClick",
                       "MainActivity$1.onClick",
                       "Could not monitor MainActivity$1: ", "native")

\* The exports attached before the first absent one (all of them when none
\* is absent): Interceptor.attach of a null address raises and leaves the
\* try block.
AttachedExports ==
    LET missing == {i \in 1..Len(nativeExports) : nativeExports[i] \notin available}
        stop == IF missing = {} THEN Len(nativeExports) + 1
                ELSE CHOOSE i \in missing : \A j \in missing : i <= j
    IN  {nativeExports[i] : i \in 1..(stop - 1)}

RegisterNative ==
    /\ pc = "native"
    /\ hooked' = hooked \cup {"libc." \o e : e \in AttachedExports}
    /\ out' = out \o << Diag("[+] Setting up native network monitoring") >>
                  \o (IF \A i \in 1..Len(nativeExports) : nativeExports[i] \in available
                      THEN <<>>
                      ELSE << Diag("Error setting up native network hooks: ") >>)
    /\ pc' = "complete"
    /\ UNCHANGED <<available, seenEvents, calls>>

Complete ==
    /\ pc = "complete"
    /\ out' = Append(out, Diag("[+] Monitoring setup complete, waiting for operations..."))
    /\ pc' = "done"
    /\ UNCHANGED <<available, hooked, seenEvents, calls>>

(***************************************************************************)
(* Intercepted calls.  The script body has ended (normally or by an        *)
(* uncaught error); the hooks installed so far stay installed.             *)
(***************************************************************************)
Running == pc \in {"done", "aborted"}

CanCall(target) == Running /\ target \in hooked /\ Len(calls) < MaxCalls

\* Variant: the lines are written after the original has run (logging after
\* the forward, or from an onLeave callback).
HookSteps_writeAfter(body, fwd) ==
    (IF fwd.forwarded = 1 THEN <<"original">> ELSE <<>>)
        \o [k \in 1..Len(body.lines) |-> "write"]

\* Every hook writes its lines first and runs the original last: the
\* console.log statements precede the forwarding statement, and the native
\* hooks have only an onEnter callback.
HookSteps(body, fwd) ==
    [k \in 1..Len(body.lines) |-> "write"]
        \o (IF fwd.forwarded = 1 THEN <<"original">> ELSE <<>>)

\* The record kept of one intercepted call.  stack is the call stack of the
\* calling thread when a managed target is intercepted; only the
\* java.io.File.<init> hook reads it.
\* steps is the order of the writes and of the run of the original inside the
\* call.
CallRecord(target, args, stack, orig, body, fwd) ==
    [target |-> target, args |-> args, stack |-> stack, orig |-> orig,
     raised |-> body.raised, wrote |-> body.lines,
     forwarded |-> fwd.forwarded, delivered |-> fwd.delivered,
     steps |-> HookSteps(body, fwd)]

ManagedCall(target, args, stack, orig, body) ==
    /\ out' = out \o body.lines
    /\ calls' = Append(calls, CallRecord(target, args, stack, orig, body,
                                         ManagedForward(body, orig)))
    /\ UNCHANGED <<pc, available, hooked, seenEvents>>

NativeCall(target, args, orig, body) ==
    /\ out' = out \o body.lines
    /\ seenEvents' = body.seen
    /\ calls' = Append(calls, CallRecord(target, args, <<>>, orig, body,
                                         NativeForward(body, orig)))
    /\ UNCHANGED <<pc, available, hooked>>

CallFileInit ==
    \E path \in Paths, stack \in Stacks, orig \in OrigResults :
        /\ CanCall("java.io.File.<init>")
        /\ ManagedCall("java.io.File.<init>", <<path>>, stack, orig,
                       FileInitBody(path, stack))

CallFileOutputStreamInit ==
    \E path \in Paths, stack \in CallerStacks, orig \in OrigResults :
        /\ CanCall("java.io.FileOutputStream.<init>")
        /\ ManagedCall("java.io.FileOutputStream.<init>", <<path>>, stack, orig,
                       FileOutputStreamInitBody(path))

CallFileInputStreamInit ==
    \E path \in Paths, stack \in CallerStacks, orig \in OrigResults :
        /\ CanCall("java.io.FileInputStream.<init>")
        /\ ManagedCall("java.io.FileInputStream.<init>", <<path>>, stack, orig,
                       FileInputStreamInitBody(path))

CallOpenFileOutput ==
    \E fileName \in Paths, stack \in CallerStacks, orig \in OrigResults :
        /\ CanCall("android.content.Context.openFileOutput")
        /\ ManagedCall("android.content.Context.openFileOutput", <<fileName>>, stack,
                       orig, OpenFileOutputBody(fileName))

CallLifecycle ==
    \E target \in LifecycleTargets, orig \in OrigResults :
        /\ CanCall(target)
        /\ ManagedCall(target, <<>>, <<>>, orig, LifecycleBody(target))

CallSocket ==
    \E domain \in Domains, type \in SockTypes, orig \in OrigResults :
        /\ CanCall("libc.socket")
        /\ NativeCall("libc.socket", <<domain, type>>, orig,
                      SocketOnEnter(seenEvents, domain, type))

CallConnect ==
    \E sockfd \in Sockfds, orig \in OrigResults :
        /\ CanCall("libc.connect")
        /\ NativeCall("libc.connect", <<sockfd>>, orig,
                      ConnectOnEnter(seenEvents, sockfd))

CallSend ==
    \E sockfd \in Sockfds, dataSize \in Sizes, orig \in OrigResults :
        /\ CanCall("libc.send")
        /\ NativeCall("libc.send", <<sockfd, dataSize>>, orig,
                      SendOnEnter(seenEvents, sockfd, dataSize))

CallRecv ==
    \E sockfd \in Sockfds, bufferSize \in Sizes, orig \in OrigResults :
        /\ CanCall("libc.recv")
        /\ NativeCall("libc.recv", <<sockfd, bufferSize>>, orig,
                      RecvOnEnter(seenEvents, sockfd, bufferSize))

Next ==
    \/ RegisterFile
    \/ RegisterFileOutputStream
    \/ RegisterFileInputStream
    \/ RegisterContext
    \/ RegisterActivity
    \/ RegisterMainActivity
    \/ RegisterMainActivity1
    \/ RegisterNative
    \/ Complete
    \/ CallFileInit
    \/ CallFileOutputStreamInit
    \/ CallFileInputStreamInit
    \/ CallOpenFileOutput
    \/ CallLifecycle
    \/ CallSocket
    \/ CallConnect
    \/ CallSend
    \/ CallRecv

Spec == Init /\ [][Next]_vars

(***************************************************************************)
(* Helpers of the properties.                                              *)
(***************************************************************************)
EventLines == {i \in 1..Len(out) : IsEvent(out[i])}
EventCount(name) == Cardinality({i \in EventLines : out[i].name = name})
CallsOf(target) == {i \in 1..Len(calls) : calls[i].target = target}

\* The structured event lines one call wrote.
EventsWritten(c) == {k \in 1..Len(c.wrote) : IsEvent(c.wrote[k])}

DedupTargets == {"libc.connect", "libc.send", "libc.recv"}

Missing == Symbols \ available

(***************************************************************************)
(* C1: for each of connect, send and recv and each value of its key        *)
(* fields, at most one structured event line with that name and those      *)
(* argument values is ever written.                                        *)
(***************************************************************************)
C1_AtMostOneEventPerKey ==
    \A i, j \in EventLines :
        (/\ out[i].name \in DedupTargets
         /\ out[j].name = out[i].name
         /\ out[j].args = out[i].args) => i = j

\* connect has been intercepted twice on descriptor 5.
C1_Witness ==
    \E i, j \in CallsOf("libc.connect") :
        i < j /\ calls[i].args = <<5>> /\ calls[j].args = <<5>>

(***************************************************************************)
(* C2: the first intercepted call of connect, send or recv with a given    *)
(* key writes its structured event line.                                   *)
(***************************************************************************)
C2_FirstOccurrenceEmitted ==
    \A i \in 1..Len(calls) :
        (/\ calls[i].target \in DedupTargets
         /\ \A j \in 1..(i - 1) :
                ~(calls[j].target = calls[i].target /\ calls[j].args = calls[i].args))
        => \E k \in EventsWritten(calls[i]) : calls[i].wrote[k].name = calls[i].target

(***************************************************************************)
(* C3: for every intercepted call the original is invoked and what the     *)
(* caller gets is what the original produced.                              *)
(***************************************************************************)
C3_Transparent ==
    \A i \in 1..Len(calls) :
        calls[i].forwarded = 1 /\ calls[i].delivered = calls[i].orig

(***************************************************************************)
(* C4: a failure inside a hook before the forward neither skips the        *)
(* original nor reaches the caller.                                        *)
(***************************************************************************)
C4_ForwardDespiteFailure ==
    \A i \in 1..Len(calls) :
        calls[i].raised =>
            calls[i].forwarded = 1 /\ calls[i].delivered # "hook_error"

(***************************************************************************)
(* C5: for each managed target the number of structured event lines with   *)
(* its name equals the number of intercepted calls of it.                  *)
(***************************************************************************)
C5_EveryManagedCallEmitted ==
    \A t \in ManagedTargets : EventCount(t) = Cardinality(CallsOf(t))

(***************************************************************************)
(* C6: a java.io.File.<init> call whose captured stack is empty writes an  *)
(* event whose method field is "unknown", and resolution does not fail.    *)
(***************************************************************************)
C6_EmptyStackUnknown ==
    \A i \in CallsOf("java.io.File.<init>") :
        Len(calls[i].stack) = 0 =>
            /\ ~calls[i].raised
            /\ \E k \in EventsWritten(calls[i]) : calls[i].wrote[k].method = "unknown"

(***************************************************************************)
(* C7: a java.io.File.<init> call with a non-empty stack writes an event   *)
(* whose method is the description of the first frame containing           *)
(* "com.example", or of the first frame when no frame contains it.         *)
(***************************************************************************)
C7_Matches(stack) ==
    {n \in 1..Len(stack) : ~stack[n].isNull /\ Contains(stack[n].text, "com.example")}

C7_Expected(stack) ==
    IF C7_Matches(stack) = {}
    THEN stack[1].text
    ELSE stack[CHOOSE n \in C7_Matches(stack) : \A m \in C7_Matches(stack) : n <= m].text

C7_FirstAppFrameElseFirst ==
    \A i \in CallsOf("java.io.File.<init>") :
        Len(calls[i].stack) > 0 =>
            \E k \in EventsWritten(calls[i]) :
                calls[i].wrote[k].method = C7_Expected(calls[i].stack)

(***************************************************************************)
(* C8: distinct (target, descriptor, size) give distinct keys, and so each *)
(* distinct key intercepted has exactly one event: the number of events of *)
(* a deduplicated target equals the number of distinct argument values it  *)
(* was called with.                                                        *)
(***************************************************************************)
C8_KeysDistinct ==
    /\ \A a, b \in Sockfds :
          /\ a # b => connectEventId(a) # connectEventId(b)
          /\ \A x, y \in Sizes :
                /\ connectEventId(a) # sendEventId(b, x)
                /\ connectEventId(a) # recvEventId(b, x)
                /\ sendEventId(a, x) # recvEventId(b, y)
                /\ <<a, x>> # <<b, y>> => sendEventId(a, x) # sendEventId(b, y)
                /\ <<a, x>> # <<b, y>> => recvEventId(a, x) # recvEventId(b, y)

C8_CollisionFree ==
    /\ C8_KeysDistinct
    /\ \A t \in DedupTargets :
          EventCount(t) = Cardinality({calls[i].args : i \in CallsOf(t)})

(***************************************************************************)
(* C9: when exactly one symbol is absent, after bootstrap every target     *)
(* whose own symbols are present is hooked and a diagnostic line about the *)
(* absent one has been written.                                            *)
(***************************************************************************)
AllTargets == ManagedTargets \cup LifecycleTargets \cup NativeTargets

\* The symbols the registration of a target resolves.
Requires(t) ==
    CASE t = "java.io.File.<init>" -> {"java.io.File"}
      [] t = "java.io.FileOutputStream.<init>" -> {"java.io.FileOutputStream"}
      [] t = "java.io.FileInputStream.<init>" -> {"java.io.FileInputStream"}
      [] t = "android.content.Context.openFileOutput" ->
            {"android.content.Context", "Context.openFileOutput"}
      [] t = "android.app.Activity.onCreate" -> {"android.app.Activity"}
      [] t = "MainActivity.setupFileOperationButton" ->
            {"MainActivity", "MainActivity.setupFileOperationButton"}
      [] t = "MainActivity$1.onClick" -> {"MainActivity$1", "MainActivity$1.onClick"}
      [] t = "libc.socket" -> {"socket"}
      [] t = "libc.connect" -> {"connect"}
      [] t = "libc.send" -> {"send"}
      [] t = "libc.recv" -> {"recv"}

\* Lines written by bootstrap besides the three progress lines.
BootDiagnostics ==
    {i \in 1..Len(out) :
        /\ ~IsEvent(out[i])
        /\ out[i].text \in {"Could not monitor setupFileOperationButton: ",
                            "Could not monitor MainActivity$1: ",
                            "Error setting up native network hooks: "}}

C9_OnlyMissingTargetSkipped ==
    (Running /\ Cardinality(Missing) = 1) =>
        /\ \A t \in AllTargets : Requires(t) \subseteq available => t \in hooked
        /\ BootDiagnostics # {}

(***************************************************************************)
(* C10: when only symbols of one optional activity hook are absent,        *)
(* bootstrap does not abort, skips that hook with its diagnostic line,     *)
(* and ends with every other hook installed and the completion line        *)
(* written.                                                                *)
(***************************************************************************)
OptionalHooks ==
    { [target |-> "MainActivity.setupFileOperationButton",
       message |-> "Could not monitor setupFileOperationButton: ",
       after |-> {"MainActivity1", "native", "complete", "done"}],
      [target |-> "MainActivity$1.onClick",
       message |-> "Could not monitor MainActivity$1: ",
       after |-> {"native", "complete", "done"}] }

HasDiag(text) == \E i \in 1..Len(out) : ~IsEvent(out[i]) /\ out[i].text = text

C10_OptionalHookSkipped ==
    \A o \in OptionalHooks :
        (Missing # {} /\ Missing \subseteq Requires(o.target)) =>
            /\ pc # "aborted"
            /\ pc \in o.after => (o.target \notin hooked /\ HasDiag(o.message))
            /\ pc = "done" =>
                  /\ hooked = AllTargets \ {o.target}
                  /\ HasDiag("[+] Monitoring setup complete, waiting for operations...")

\* Bootstrap has finished without the MainActivity class and the recv hook,
\* the last one registered, has intercepted a call.
C10_Witness ==
    /\ pc = "done"
    /\ "MainActivity" \notin available
    /\ CallsOf("libc.recv") # {}

(***************************************************************************)
(* C11: the name of every structured event line ever written is an entry   *)
(* of the monitored table: membership in the table gates every emission.   *)
(***************************************************************************)
C11_EveryEventNameMonitored ==
    \A i \in EventLines : shouldLogApi(out[i].name)

(***************************************************************************)
(* C12: after a bootstrap with every symbol present, every target listed   *)
(* in the monitored table has a hook installed.                            *)
(***************************************************************************)
C12_EveryMonitoredTargetHooked ==
    (pc = "done" /\ Missing = {}) =>
        \A i \in 1..Len(monitoredApis) : monitoredApis[i] \in hooked

(***************************************************************************)
(* C13: when a deduplicated target is intercepted more than once with the  *)
(* same key, whatever the order in which the callbacks run, exactly one of *)
(* those calls writes the structured event line.                           *)
(***************************************************************************)
SameKeyCalls(i) ==
    {j \in CallsOf(calls[i].target) : calls[j].args = calls[i].args}

C13_ExactlyOneOfConcurrentEmits ==
    \A i \in 1..Len(calls) :
        (calls[i].target \in DedupTargets /\ Cardinality(SameKeyCalls(i)) >= 2) =>
            Cardinality({j \in SameKeyCalls(i) : EventsWritten(calls[j]) # {}}) = 1

(***************************************************************************)
(* C14: the check-and-record step of connect, send and recv never raises   *)
(* inside the callback, also when no key has been recorded yet.            *)
(***************************************************************************)
C14_DedupNeverRaises ==
    \A i \in 1..Len(calls) :
        calls[i].target \in DedupTargets => ~calls[i].raised

(***************************************************************************)
(* C15: no step removes a key from the seen-set; a call of connect, send   *)
(* or recv whose key is already recorded writes no event; every other step *)
(* (managed hooks, the socket hook, bootstrap) leaves the seen-set as it   *)
(* is.                                                                     *)
(***************************************************************************)
C15_KeyOf(c) ==
    CASE c.target = "libc.connect" -> connectEventId(c.args[1])
      [] c.target = "libc.send" -> sendEventId(c.args[1], c.args[2])
      [] c.target = "libc.recv" -> recvEventId(c.args[1], c.args[2])

C15_Step ==
    /\ seenEvents.keys \subseteq seenEvents'.keys
    /\ Len(calls') = Len(calls) => seenEvents' = seenEvents
    /\ Len(calls') > Len(calls) =>
          LET c == calls'[Len(calls')]
          IN  /\ c.target \notin DedupTargets => seenEvents' = seenEvents
              /\ (c.target \in DedupTargets /\ C15_KeyOf(c) \in seenEvents.keys)
                    => EventsWritten(c) = {}

C16_MethodFieldWellFormed ==
    \A i \in EventLines :
        /\ out[i].type = "api"
        /\ out[i].method = "native" <=> out[i].name \in NativeTargets
        /\ out[i].name \notin NativeTargets =>
              /\ out[i].method # ""
              /\ \/ out[i].method = "unknown"
                 \/ \E f \in Frames : ~f.isNull /\ out[i].method = f.text

(***************************************************************************)
(* C17: when a managed target is called directly from an application       *)
(* frame, the event the hook writes has that frame's description as its    *)
(* method, for each of the four managed targets.                           *)
(***************************************************************************)
C17_ManagedMethodIsCallSite ==
    \A i \in 1..Len(calls) :
        (/\ calls[i].target \in ManagedTargets
         /\ Len(calls[i].stack) > 0
         /\ IsAppFrame(calls[i].stack[1]))
        => \E k \in EventsWritten(calls[i]) :
              calls[i].wrote[k].method = calls[i].stack[1].text

(***************************************************************************)
(* C18: inside every intercepted call the lines are written before the     *)
(* original runs, and the lines of a call reach the sink in the step of    *)
(* that call: nothing is written after the original has started, nothing   *)
(* is left for a later call, and nothing is written between calls.         *)
(***************************************************************************)
C18_Step ==
    /\ Len(calls') > Len(calls) =>
          LET c == calls'[Len(calls')]
          IN  /\ out' = out \o c.wrote
              /\ Cardinality({a \in 1..Len(c.steps) : c.steps[a] = "write"})
                    = Len(c.wrote)
              /\ \A a, b \in 1..Len(c.steps) :
                    (c.steps[a] = "original" /\ c.steps[b] = "write") => b < a
    /\ (Len(calls') = Len(calls) /\ Running) => out' = out

C18_WritesBeforeOriginal == [][C18_Step]_vars

\* A managed hook and a native hook have each written their lines and run
\* the original.
C18_Witness ==
    /\ \E i \in CallsOf("java.io.File.<init>") :
          calls[i].steps = <<"write", "write", "original">>
    /\ \E i \in CallsOf("libc.socket") :
          calls[i].steps = <<"write", "write", "original">>

(***************************************************************************)
(* C19: every intercepted socket call writes exactly one libc.socket event *)
(* and leaves the seen-set as it is, so the number of libc.socket events   *)
(* equals the number of socket calls whatever was intercepted before.      *)
(***************************************************************************)
C19_Step ==
    (Len(calls') > Len(calls) /\ calls'[Len(calls')].target = "libc.socket") =>
        LET c == calls'[Len(calls')]
        IN  /\ seenEvents' = seenEvents
            /\ ~c.raised
            /\ Cardinality({k \in EventsWritten(c) : c.wrote[k].name = "libc.socket"}) = 1
            /\ Cardinality({i \in 1..Len(out') :
                               IsEvent(out'[i]) /\ out'[i].name = "libc.socket"})
                  = Cardinality({i \in 1..Len(calls') : calls'[i].target = "libc.socket"})

C19_SocketNeverDeduplicated == [][C19_Step]_vars

\* socket has been intercepted twice with the same domain and type and both
\* events are in the sink.
C19_Witness ==
    /\ \E i, j \in CallsOf("libc.socket") : i < j /\ calls[i].args = calls[j].args
    /\ EventCount("libc.socket") = 2

====
